---------------------------- MODULE Spec2Model ----------------------------
(* Model of server/routes/styleguide-routes.ts: the four styleguide routes, *)
(* the keyword responder generateSandraStyleguideResponse, and the unique   *)
(* constraints of the user_models table declared in the schema part.        *)
EXTENDS Integers, Sequences, FiniteSets, TLC

VARIABLES
  reqs,          \* the requests received so far, in arrival order (routes)
  styleguides,   \* persisted styleguide of each user (storage boundary)
  onboarding,    \* persisted onboarding data of each user (storage boundary)
  nwrites,       \* number of storage writes committed so far
  ctx,           \* argument of a direct call of generateSandraStyleguideResponse
  out,           \* its result
  userModels,    \* rows of the user_models table
  inserts,       \* concurrent insert attempts on user_models
  store          \* rows of the schema's tables, and the last statement's outcome

vars == <<reqs, styleguides, onboarding, nwrites, ctx, out, userModels, inserts,
          store>>

-----------------------------------------------------------------------------
(* Bounds *)

MaxRequests == 2
MaxWords == 2
MaxInserts == 3
MaxRows == 3

-----------------------------------------------------------------------------
(* JavaScript values *)

Undefined == [t |-> "undefined"]
Null == [t |-> "null"]
Str(s) == [t |-> "string", v |-> s]

\* truthiness as `||` and `!` see it: undefined, null and "" are falsy
Truthy(x) == x.t = "string" /\ x.v # <<>>

\* variant: a ?? b, which falls back on undefined and null only
OrElse_Nullish(a, b) == IF a.t \in {"undefined", "null"} THEN b ELSE a

\* a || b
OrElse(a, b) == IF Truthy(a) THEN a ELSE b

\* obj?.field : undefined when obj is undefined or null
OptField(obj, f) == IF obj.t = "object" THEN obj.v[f] ELSE Undefined

-----------------------------------------------------------------------------
(* Strings as sequences of characters; String.prototype.toLowerCase and     *)
(* String.prototype.includes                                                *)

UpperChars == <<"A","B","C","D","E","F","G","H","I","J","K","L","M",
                "N","O","P","Q","R","S","T","U","V","W","X","Y","Z">>
LowerChars == <<"a","b","c","d","e","f","g","h","i","j","k","l","m",
                "n","o","p","q","r","s","t","u","v","w","x","y","z">>

toLowerChar(c) ==
  IF \E i \in 1..26 : UpperChars[i] = c
    THEN LowerChars[CHOOSE i \in 1..26 : UpperChars[i] = c]
    ELSE c

toLowerCase(s) == [i \in 1..Len(s) |-> toLowerChar(s[i])]

includes(s, sub) ==
  \E i \in 0..(Len(s) - Len(sub)) : SubSeq(s, i + 1, i + Len(sub)) = sub

kwCreate == <<"c","r","e","a","t","e">>
kwNew == <<"n","e","w">>
kwGenerate == <<"g","e","n","e","r","a","t","e">>

-----------------------------------------------------------------------------
(* Words the messages of the model are built from, as character sequences *)

wCreate == <<"c","r","e","a","t","e">>
wCREATE == <<"C","R","E","A","T","E">>
wCreat == <<"c","r","e","a","t">>
wE == <<"e">>
wD == <<"d">>
wNew == <<"N","e","w">>
wNe == <<"n","e">>
wW == <<"W">>
wGENER == <<"G","E","N","E","R">>
wAte == <<"a","t","e">>
wHello == <<"h","e","l","l","o">>
wSpace == <<" ">>

Words == {wCreate, wCREATE, wCreat, wE, wD, wNew, wNe, wW, wGENER, wAte,
          wHello, wSpace}

RECURSIVE Concat(_)
Concat(ws) == IF ws = <<>> THEN <<>> ELSE Head(ws) \o Concat(Tail(ws))

\* every concatenation of at most MaxWords words
MessageTexts ==
  { Concat(ws) : ws \in UNION { [1..n -> Words] : n \in 0..MaxWords } }

-----------------------------------------------------------------------------
(* The template catalog: minimalisticTemplate is imported from              *)
(* shared/templates/template-minimalistic; only the fields the routes read  *)
(* are kept.                                                                *)

minimalisticTemplate ==
  [ id |-> "minimalistic",
    name |-> "Refined Minimalist",
    description |-> <<"C","l","e","a","n">>,
    typography |-> [headline |-> "Helvetica Neue"],
    colors |-> [primary |-> "#1a1a1a"],
    voiceProfile |-> "voiceProfile",
    visualElements |-> "visualElements" ]

-----------------------------------------------------------------------------
(* generateSandraStyleguideResponse *)

PlaceholderMission == <<"Your unique mission and vision">>
PlaceholderVoice == <<"Professional and authentic">>
PlaceholderAudience == <<"Your ideal clients">>

TypeError == [threw |-> "TypeError"]

\* variant: the keywords are looked for in the message as typed
isCreationRequest_CaseSensitive(message) ==
  \/ includes(message, kwCreate)
  \/ includes(message, kwNew)
  \/ includes(message, kwGenerate)

isCreationRequest(message) ==
  \/ includes(toLowerCase(message), kwCreate)
  \/ includes(toLowerCase(message), kwNew)
  \/ includes(toLowerCase(message), kwGenerate)

\* variant: the template's name is given as its id
CreatedStyleguideData_NameAsId(template, onboardingData) ==
  [ templateId |-> template.name,
    templateName |-> template.name,
    colors |-> template.colors,
    typography |-> template.typography,
    voiceProfile |-> template.voiceProfile,
    visualElements |-> template.visualElements,
    personalMission |->
      OrElse(OptField(onboardingData, "personalMission"), Str(PlaceholderMission)),
    brandVoice |->
      OrElse(OptField(onboardingData, "brandVoice"), Str(PlaceholderVoice)),
    targetAudience |->
      OrElse(OptField(onboardingData, "targetAudience"), Str(PlaceholderAudience)) ]

CreatedStyleguideData(template, onboardingData) ==
  [ templateId |-> template.id,
    templateName |-> template.name,
    colors |-> template.colors,
    typography |-> template.typography,
    voiceProfile |-> template.voiceProfile,
    visualElements |-> template.visualElements,
    personalMission |->
      OrElse(OptField(onboardingData, "personalMission"), Str(PlaceholderMission)),
    brandVoice |->
      OrElse(OptField(onboardingData, "brandVoice"), Str(PlaceholderVoice)),
    targetAudience |->
      OrElse(OptField(onboardingData, "targetAudience"), Str(PlaceholderAudience)) ]

CreatedResponse(context) ==
  LET template == context.availableTemplates[1] IN
  [ type |-> "styleguide_created",
    message |-> << "I've created a beautiful", template.name,
                   toLowerCase(template.description),
                   template.typography.headline, template.colors.primary >>,
    styleguideData |-> CreatedStyleguideData(template, context.onboardingData),
    templateApplied |-> template.id ]

ConversationResponse ==
  [ type |-> "conversation",
    message |-> "I'd love to help you create your personalized styleguide!",
    suggestions |-> << "Create my styleguide", "Show me templates",
                       "What information do you need?" >> ]

\* variant: the caller's id is written into the response
generateSandraStyleguideResponse_Personalised(context) ==
  IF context.message.t # "string" THEN TypeError
  ELSE IF isCreationRequest(context.message.v)
    THEN [CreatedResponse(context) EXCEPT !.templateApplied = context.userId]
  ELSE ConversationResponse

\* variant: a message that is not a string is read as the empty string
generateSandraStyleguideResponse_Lenient(context) ==
  IF context.message.t # "string" THEN ConversationResponse
  ELSE IF isCreationRequest(context.message.v) THEN CreatedResponse(context)
  ELSE ConversationResponse

\* message.toLowerCase() throws a TypeError when message is not a string
generateSandraStyleguideResponse(context) ==
  IF context.message.t # "string" THEN TypeError
  ELSE IF isCreationRequest(context.message.v) THEN CreatedResponse(context)
  ELSE ConversationResponse

-----------------------------------------------------------------------------
(* Inputs of the model *)

u1 == <<"u","1">>
u2 == <<"u","2">>
demo123 == <<"d","e","m","o","1","2","3">>

Users == {u1, u2}

Obj(r) == [t |-> "object", v |-> r]

\* an onboarding answer: not set, empty, or some text
FieldValues == {Undefined, Str(<<>>), Str(<<"m","1">>)}

OnboardingRecords ==
  { Obj([personalMission |-> a, brandVoice |-> b, targetAudience |-> c]) :
      a \in FieldValues, b \in FieldValues, c \in FieldValues }

\* what an onboarding lookup can give: nothing, or the caller's record
OnboardingValues == {Undefined, Null} \cup OnboardingRecords

DraftStyleguide == Obj([title |-> Str(<<"d","r","a","f","t">>)])

ChatContexts ==
  [ message : {Str(m) : m \in MessageTexts} \cup {Undefined},
    userId : {Str(u) : u \in Users},
    onboardingData : OnboardingValues,
    currentStyleguide : {Undefined, DraftStyleguide},
    availableTemplates : {<<minimalisticTemplate>>} ]

NotCalled == [called |-> FALSE]
Returned(r) == [called |-> TRUE, result |-> r]

-----------------------------------------------------------------------------
(* Values of the variables a specification does not use *)

NoRecord == [t |-> "none"]
NoStyleguides == [u \in Users |-> NoRecord]
NoOnboarding == [u \in Users |-> Undefined]
NoContext == [message |-> Undefined]

TableNames == {"user_models", "brandbooks", "dashboards", "domains", "onboarding_data"}
NoStatement == [op |-> "none", table |-> "none", result |-> "none"]
EmptyStore == [rows |-> [t \in TableNames |-> {}], last |-> NoStatement]

-----------------------------------------------------------------------------
(* SpecChat: generateSandraStyleguideResponse called on every context *)

InitChat ==
  /\ ctx \in ChatContexts
  /\ out = NotCalled
  /\ reqs = <<>>
  /\ styleguides = NoStyleguides
  /\ onboarding = NoOnboarding
  /\ nwrites = 0
  /\ userModels = {}
  /\ inserts = <<>>
  /\ store = EmptyStore

CallGenerate ==
  /\ ~out.called
  /\ out' = Returned(generateSandraStyleguideResponse(ctx))
  /\ UNCHANGED <<ctx, reqs, styleguides, onboarding, nwrites, userModels, inserts, store>>

NextChat == CallGenerate

SpecChat == InitChat /\ [][NextChat]_vars

-----------------------------------------------------------------------------
(* The routes: requests and responses *)

GET_STYLEGUIDE == "GET /api/styleguide/:userId"
POST_STYLEGUIDE == "POST /api/styleguide"
GET_TEMPLATES == "GET /api/styleguide-templates"
POST_CHAT == "POST /api/styleguide-chat"

\* res.status(s).json(b); res.json(b) is status 200
Resp(s, b) == [status |-> s, body |-> b]
Message(m) == [message |-> m]

\* req.user?.claims?.sub of a request that reached the handler
Subs == {Undefined} \cup {Str(u) : u \in Users}

\* req.params.userId
Params == {demo123, u1, u2}

\* new Date().toISOString()
Times == {"t1", "t2"}

\* bodies of POST /api/styleguide
StyleguideBodies == { Obj([title |-> Str(<<"A">>)]), Obj([title |-> Str(<<"B">>)]) }

\* bodies of POST /api/styleguide-chat: {message, currentStyleguide}
ChatBodies ==
  [ message : {Str(wHello), Str(wCREATE \o wD), Undefined},
    currentStyleguide : {DraftStyleguide} ]

NoCall == [op |-> "none"]
NotAwaited == [state |-> "none"]
Ok(v) == [state |-> "ok", v |-> v]
Threw == [state |-> "threw"]

\* a request as the handler first sees it; `wseq` records when its write was
\* committed and `at` when a GET was answered, counted in committed writes
NewReq(route, sub, param, body) ==
  [ route |-> route, sub |-> sub, param |-> param, body |-> body,
    pc |-> "start", call |-> NoCall, calls |-> 0, awaited |-> NotAwaited,
    at |-> 0, wseq |-> 0, responses |-> <<>> ]

Send(r, resp) == [r EXCEPT !.responses = Append(@, resp), !.pc = "done"]

\* the handler suspends on `await storage.<op>(userId, data)`
Await(r, op, userId, data) ==
  [r EXCEPT !.pc = "await", !.calls = @ + 1,
            !.call = [op |-> op, userId |-> userId, data |-> data]]

demoStyleguide(now) ==
  [ id |-> 1, userId |-> demo123, templateId |-> "minimalistic",
    title |-> "Sarah Johnson", subtitle |-> "Strategic Brand Consultant",
    personalMission |-> "Empowering women entrepreneurs ...",
    brandVoice |-> "Warm, professional, and inspiring ...",
    targetAudience |-> "Ambitious women entrepreneurs ...",
    visualStyle |-> "Refined minimal with editorial sophistication",
    colorPalette |-> [primary |-> "#1a1a1a", secondary |-> "#666666",
                      accent |-> "#f8f8f8", text |-> "#1a1a1a",
                      background |-> "#fefefe", border |-> "#f0f0f0"],
    typography |-> [headline |-> "Helvetica Neue, sans-serif",
                    subheading |-> "Helvetica Neue, sans-serif",
                    body |-> "Helvetica Neue, sans-serif",
                    accent |-> "Helvetica Neue, sans-serif"],
    imageSelections |-> "imageSelections",
    brandPersonality |-> "brandPersonality",
    businessApplications |-> "businessApplications",
    isActive |-> TRUE, createdAt |-> now, updatedAt |-> now ]

\* variant: identifiers other than the demo one are looked up in the store
GetStyleguide_Lookup(userId, now) ==
  /\ Len(reqs) < MaxRequests
  /\ LET r == [NewReq(GET_STYLEGUIDE, Undefined, userId, Undefined)
                 EXCEPT !.at = nwrites] IN
     reqs' = Append(reqs,
       IF userId = demo123
         THEN Send(r, Resp(200, demoStyleguide(now)))
       ELSE IF userId \in DOMAIN styleguides /\ styleguides[userId] # NoRecord
         THEN Send(r, Resp(200, styleguides[userId]))
         ELSE Send(r, Resp(404, Message("Styleguide not found"))))
  /\ UNCHANGED <<styleguides, onboarding, nwrites, ctx, out, userModels, inserts, store>>

\* GET /api/styleguide/:userId
GetStyleguide(userId, now) ==
  /\ Len(reqs) < MaxRequests
  /\ LET r == [NewReq(GET_STYLEGUIDE, Undefined, userId, Undefined)
                 EXCEPT !.at = nwrites] IN
     reqs' = Append(reqs,
       IF userId = demo123
         THEN Send(r, Resp(200, demoStyleguide(now)))
         ELSE Send(r, Resp(404, Message("Styleguide not found"))))
  /\ UNCHANGED <<styleguides, onboarding, nwrites, ctx, out, userModels, inserts, store>>

\* the catalog GET /api/styleguide-templates lists
templates == <<minimalisticTemplate>>

\* GET /api/styleguide-templates
GetTemplates ==
  /\ Len(reqs) < MaxRequests
  /\ reqs' = Append(reqs,
       Send(NewReq(GET_TEMPLATES, Undefined, <<>>, Undefined),
            Resp(200, [array |-> templates])))
  /\ UNCHANGED <<styleguides, onboarding, nwrites, ctx, out, userModels, inserts, store>>

\* POST /api/styleguide, up to `await storage.createOrUpdateStyleguide(...)`
PostStyleguide(sub, body) ==
  /\ Len(reqs) < MaxRequests
  /\ LET r == NewReq(POST_STYLEGUIDE, sub, <<>>, body)
         userId == sub
     IN reqs' = Append(reqs,
          IF ~Truthy(userId)
            THEN Send(r, Resp(401, Message("User not authenticated")))
            ELSE Await(r, "createOrUpdateStyleguide", userId, body))
  /\ UNCHANGED <<styleguides, onboarding, nwrites, ctx, out, userModels, inserts, store>>

\* variant: the request body is echoed instead of the stored record
PostStyleguideResume_EchoBody(i) ==
  /\ reqs[i].route = POST_STYLEGUIDE
  /\ reqs[i].pc = "resume"
  /\ reqs' = [reqs EXCEPT ![i] =
       IF @.awaited.state = "ok"
         THEN Send(@, Resp(200, @.body))
         ELSE Send(@, Resp(500, Message("Failed to create styleguide")))]
  /\ UNCHANGED <<styleguides, onboarding, nwrites, ctx, out, userModels, inserts, store>>

\* POST /api/styleguide, from the await on: res.json(styleguide), or the catch
PostStyleguideResume(i) ==
  /\ reqs[i].route = POST_STYLEGUIDE
  /\ reqs[i].pc = "resume"
  /\ reqs' = [reqs EXCEPT ![i] =
       IF @.awaited.state = "ok"
         THEN Send(@, Resp(200, @.awaited.v))
         ELSE Send(@, Resp(500, Message("Failed to create styleguide")))]
  /\ UNCHANGED <<styleguides, onboarding, nwrites, ctx, out, userModels, inserts, store>>

\* variant: the 401 branch does not return, so the handler goes on to storage
PostChat_NoReturn(sub, body) ==
  /\ Len(reqs) < MaxRequests
  /\ LET r == NewReq(POST_CHAT, sub, <<>>, body)
         userId == sub
     IN reqs' = Append(reqs,
          IF ~Truthy(userId)
            THEN Await(Send(r, Resp(401, Message("User not authenticated"))),
                       "getOnboardingData", userId, Undefined)
            ELSE Await(r, "getOnboardingData", userId, Undefined))
  /\ UNCHANGED <<styleguides, onboarding, nwrites, ctx, out, userModels, inserts, store>>

\* POST /api/styleguide-chat, up to `await storage.getOnboardingData(userId)`
PostChat(sub, body) ==
  /\ Len(reqs) < MaxRequests
  /\ LET r == NewReq(POST_CHAT, sub, <<>>, body)
         userId == sub
     IN reqs' = Append(reqs,
          IF ~Truthy(userId)
            THEN Send(r, Resp(401, Message("User not authenticated")))
            ELSE Await(r, "getOnboardingData", userId, Undefined))
  /\ UNCHANGED <<styleguides, onboarding, nwrites, ctx, out, userModels, inserts, store>>

\* the context the chat handler passes to generateSandraStyleguideResponse
ChatContext(r) ==
  [ message |-> r.body.message,
    userId |-> r.sub,
    onboardingData |-> r.awaited.v,
    currentStyleguide |-> r.body.currentStyleguide,
    availableTemplates |-> <<minimalisticTemplate>> ]

\* variant: a created styleguide is also saved by the chat route
PostChatResume_Persist(i) ==
  /\ reqs[i].route = POST_CHAT
  /\ reqs[i].pc = "resume"
  /\ LET r == reqs[i]
         response == IF r.awaited.state = "ok"
                       THEN generateSandraStyleguideResponse(ChatContext(r))
                       ELSE TypeError
     IN IF response = TypeError
          THEN /\ reqs' = [reqs EXCEPT ![i] =
                    Send(@, Resp(500, Message("Failed to process styleguide request")))]
               /\ UNCHANGED styleguides
          ELSE /\ reqs' = [reqs EXCEPT ![i] = Send(@, Resp(200, response))]
               /\ styleguides' =
                    IF response.type = "styleguide_created"
                      THEN [styleguides EXCEPT ![r.sub.v] =
                             [userId |-> r.sub, data |-> Obj(response.styleguideData)]]
                      ELSE styleguides
  /\ UNCHANGED <<onboarding, nwrites, ctx, out, userModels, inserts, store>>

\* variant: no catch around the storage call, so a failure sends nothing
PostChatResume_NoCatch(i) ==
  /\ reqs[i].route = POST_CHAT
  /\ reqs[i].pc = "resume"
  /\ reqs' = [reqs EXCEPT ![i] =
       IF @.awaited.state = "ok"
         THEN LET response == generateSandraStyleguideResponse(ChatContext(@)) IN
              IF response = TypeError
                THEN Send(@, Resp(500, Message("Failed to process styleguide request")))
                ELSE Send(@, Resp(200, response))
         ELSE [@ EXCEPT !.pc = "done"]]
  /\ UNCHANGED <<styleguides, onboarding, nwrites, ctx, out, userModels, inserts, store>>

\* POST /api/styleguide-chat, from the await on: res.json(response), or the catch
PostChatResume(i) ==
  /\ reqs[i].route = POST_CHAT
  /\ reqs[i].pc = "resume"
  /\ reqs' = [reqs EXCEPT ![i] =
       IF @.awaited.state = "ok"
         THEN LET response == generateSandraStyleguideResponse(ChatContext(@)) IN
              IF response = TypeError
                THEN Send(@, Resp(500, Message("Failed to process styleguide request")))
                ELSE Send(@, Resp(200, response))
         ELSE Send(@, Resp(500, Message("Failed to process styleguide request")))]
  /\ UNCHANGED <<styleguides, onboarding, nwrites, ctx, out, userModels, inserts, store>>

-----------------------------------------------------------------------------
(* The storage boundary (server/storage) *)

\* the record createOrUpdateStyleguide stores and returns
StyleguideRecord(userId, data) == [userId |-> userId, data |-> data]

\* storage.createOrUpdateStyleguide(userId, data): upsert, or a failure
CreateOrUpdateStyleguide(i) ==
  /\ reqs[i].pc = "await"
  /\ reqs[i].call.op = "createOrUpdateStyleguide"
  /\ LET c == reqs[i].call
         rec == StyleguideRecord(c.userId, c.data)
     IN \/ /\ c.userId.t = "string"
           /\ styleguides' = [styleguides EXCEPT ![c.userId.v] = rec]
           /\ nwrites' = nwrites + 1
           /\ reqs' = [reqs EXCEPT ![i].pc = "resume", ![i].awaited = Ok(rec),
                                   ![i].wseq = nwrites + 1]
        \/ /\ reqs' = [reqs EXCEPT ![i].pc = "resume", ![i].awaited = Threw]
           /\ UNCHANGED <<styleguides, nwrites>>
  /\ UNCHANGED <<onboarding, ctx, out, userModels, inserts, store>>

\* storage.getOnboardingData(userId): the caller's record or absent, or a failure
GetOnboardingData(i) ==
  /\ reqs[i].pc = "await"
  /\ reqs[i].call.op = "getOnboardingData"
  /\ \/ /\ reqs[i].call.userId.t = "string"
        /\ reqs' = [reqs EXCEPT ![i].pc = "resume",
                                ![i].awaited = Ok(onboarding[reqs[i].call.userId.v])]
     \/ reqs' = [reqs EXCEPT ![i].pc = "resume", ![i].awaited = Threw]
  /\ UNCHANGED <<styleguides, onboarding, nwrites, ctx, out, userModels, inserts, store>>

-----------------------------------------------------------------------------
(* Spec: the four routes serving up to MaxRequests requests, interleaved at *)
(* the awaits                                                               *)

\* an onboarding record with one answer given, one missing and one empty
SomeOnboarding ==
  Obj([personalMission |-> Str(<<"m","1">>), brandVoice |-> Undefined,
       targetAudience |-> Str(<<>>)])

\* onboarding data stored before the routes run: u1 has a record, and u2 has
\* an equal one or none
StoredOnboarding ==
  { [u \in Users |-> IF u = u1 THEN SomeOnboarding ELSE od] :
      od \in {Undefined, SomeOnboarding} }

Init ==
  /\ reqs = <<>>
  /\ styleguides = NoStyleguides
  /\ onboarding \in StoredOnboarding
  /\ nwrites = 0
  /\ ctx = NoContext
  /\ out = NotCalled
  /\ userModels = {}
  /\ inserts = <<>>
  /\ store = EmptyStore

Next ==
  \/ \E userId \in Params, now \in Times : GetStyleguide(userId, now)
  \/ GetTemplates
  \/ \E sub \in Subs, body \in StyleguideBodies : PostStyleguide(sub, body)
  \/ \E sub \in Subs, body \in ChatBodies : PostChat(sub, body)
  \/ \E i \in 1..Len(reqs) : CreateOrUpdateStyleguide(i)
  \/ \E i \in 1..Len(reqs) : GetOnboardingData(i)
  \/ \E i \in 1..Len(reqs) : PostStyleguideResume(i)
  \/ \E i \in 1..Len(reqs) : PostChatResume(i)

Spec == Init /\ [][Next]_vars

-----------------------------------------------------------------------------
(* SpecMessages: the two POST routes, with chat bodies whose message is     *)
(* missing, null, a number, or a string                                     *)

Number(n) == [t |-> "number", v |-> n]

AnyMessageBodies ==
  [ message : {Undefined, Null, Number(7), Str(wHello)},
    currentStyleguide : {DraftStyleguide} ]

NextMessages ==
  \/ \E sub \in Subs, body \in StyleguideBodies : PostStyleguide(sub, body)
  \/ \E sub \in Subs, body \in AnyMessageBodies : PostChat(sub, body)
  \/ \E i \in 1..Len(reqs) : CreateOrUpdateStyleguide(i)
  \/ \E i \in 1..Len(reqs) : GetOnboardingData(i)
  \/ \E i \in 1..Len(reqs) : PostStyleguideResume(i)
  \/ \E i \in 1..Len(reqs) : PostChatResume(i)

SpecMessages == Init /\ [][NextMessages]_vars

-----------------------------------------------------------------------------
(* The user_models table: its constraints, and concurrent inserts           *)

\* variant: only the trigger word is unique
userModelsUnique_TriggerWordOnly == {"triggerWord"}

\* columns declared .unique()
userModelsUnique == {"userId", "triggerWord"}

\* columns declared .notNull()
userModelsNotNull == {"userId", "triggerWord"}

TriggerWords == {Str(<<"t","w","1">>), Str(<<"t","w","2">>), Null}

\* the values an insert gives: [userId, triggerWord]
UserModelValues == [userId : {Str(u) : u \in Users}, triggerWord : TriggerWords]

NotNullViolated(notNull, values) == \E c \in notNull : values[c] = Null

\* a unique constraint never matches on NULL
UniqueViolated(unique, rows, values) ==
  \E c \in unique : values[c] # Null /\ \E row \in rows : row[c] = values[c]

\* a creation of a UserModel is issued; the database has not run it yet
IssueInsert(values) ==
  /\ Len(inserts) < MaxInserts
  /\ inserts' = Append(inserts, [values |-> values, state |-> "issued", error |-> "none"])
  /\ UNCHANGED <<userModels, reqs, styleguides, onboarding, nwrites, ctx, out, store>>

\* the database runs insert i: the constraint checks and the insert are one step
ExecuteInsert(i) ==
  /\ inserts[i].state = "issued"
  /\ LET values == inserts[i].values IN
     IF NotNullViolated(userModelsNotNull, values)
       THEN /\ inserts' = [inserts EXCEPT ![i].state = "failed",
                                           ![i].error = "not_null_violation"]
            /\ UNCHANGED userModels
     ELSE IF UniqueViolated(userModelsUnique, userModels, values)
       THEN /\ inserts' = [inserts EXCEPT ![i].state = "failed",
                                           ![i].error = "unique_violation"]
            /\ UNCHANGED userModels
     ELSE /\ inserts' = [inserts EXCEPT ![i].state = "committed"]
          /\ userModels' = userModels \cup
               {[id |-> i, userId |-> values.userId, triggerWord |-> values.triggerWord]}
  /\ UNCHANGED <<reqs, styleguides, onboarding, nwrites, ctx, out, store>>

InitModels ==
  /\ userModels = {}
  /\ inserts = <<>>
  /\ reqs = <<>>
  /\ styleguides = NoStyleguides
  /\ onboarding = NoOnboarding
  /\ nwrites = 0
  /\ ctx = NoContext
  /\ out = NotCalled
  /\ store = EmptyStore

NextModels ==
  \/ \E values \in UserModelValues : IssueInsert(values)
  \/ \E i \in 1..Len(inserts) : ExecuteInsert(i)

SpecModels == InitModels /\ [][NextModels]_vars

-----------------------------------------------------------------------------
(* The tables with constraints between rows: user_models, brandbooks,       *)
(* dashboards, domains, and onboarding_data; the columns kept are the ones  *)
(* declared unique and the owning user_id                                   *)

brandbooksUnique == {"userId"}
brandbooksNotNull == {"userId"}

dashboardsUnique == {"userId"}
dashboardsNotNull == {"userId"}

\* variant: only the domain string is unique
domainsUnique_DomainOnly == {"domain"}

domainsUnique == {"domain", "subdomain"}
domainsNotNull == {"userId", "domain"}

\* onboarding_data.user_id is declared .references(() => users.id).notNull()
onboardingDataUnique == {}
onboardingDataNotNull == {"userId"}

Unique(t) ==
  IF t = "user_models" THEN userModelsUnique
  ELSE IF t = "brandbooks" THEN brandbooksUnique
  ELSE IF t = "dashboards" THEN dashboardsUnique
  ELSE IF t = "domains" THEN domainsUnique
  ELSE onboardingDataUnique

NotNull(t) ==
  IF t = "user_models" THEN userModelsNotNull
  ELSE IF t = "brandbooks" THEN brandbooksNotNull
  ELSE IF t = "dashboards" THEN dashboardsNotNull
  ELSE IF t = "domains" THEN domainsNotNull
  ELSE onboardingDataNotNull

Columns(t) ==
  IF t = "user_models" THEN {"userId", "triggerWord"}
  ELSE IF t = "domains" THEN {"userId", "domain", "subdomain"}
  ELSE {"userId"}

UserIds == {Str(u) : u \in Users} \cup {Null}
DomainNames == {Str(<<"a",".","c","o","m">>), Str(<<"b",".","c","o","m">>), Null}
Subdomains == {Str(<<"a">>), Null}

\* the values a statement can give to column c
ColumnValues(c) ==
  IF c = "userId" THEN UserIds
  ELSE IF c = "triggerWord" THEN TriggerWords
  ELSE IF c = "domain" THEN DomainNames
  ELSE Subdomains

\* the values an insert into table t gives
InsertValues(t) ==
  { values \in [Columns(t) -> UserIds \cup TriggerWords \cup DomainNames \cup Subdomains] :
      \A c \in Columns(t) : values[c] \in ColumnValues(c) }

TotalRows ==
  Cardinality(store.rows["user_models"]) + Cardinality(store.rows["brandbooks"])
    + Cardinality(store.rows["dashboards"]) + Cardinality(store.rows["domains"])
    + Cardinality(store.rows["onboarding_data"])

\* the outcome of writing `values` into table t beside the rows `others`
Outcome(t, others, values) ==
  IF NotNullViolated(NotNull(t), values) THEN "not_null_violation"
  ELSE IF UniqueViolated(Unique(t), others, values) THEN "unique_violation"
  ELSE "ok"

WithId(t, n, values) ==
  [c \in Columns(t) \cup {"id"} |-> IF c = "id" THEN n ELSE values[c]]

\* INSERT INTO t: the row is added when the constraints accept it
InsertRow(t, values) ==
  /\ TotalRows < MaxRows
  /\ LET rows == store.rows[t]
         result == Outcome(t, rows, values)
     IN store' =
          [ rows |-> IF result = "ok"
                       THEN [store.rows EXCEPT
                               ![t] = rows \cup {WithId(t, Cardinality(rows) + 1, values)}]
                       ELSE store.rows,
            last |-> [op |-> "insert", table |-> t, result |-> result] ]
  /\ UNCHANGED <<reqs, styleguides, onboarding, nwrites, ctx, out, userModels, inserts>>

\* UPDATE t SET c = v WHERE id = row.id: done when the constraints accept it
UpdateRow(t, row, c, v) ==
  /\ row \in store.rows[t]
  /\ row[c] # v
  /\ LET updated == [row EXCEPT ![c] = v]
         others == store.rows[t] \ {row}
         result == Outcome(t, others, updated)
     IN store' =
          [ rows |-> IF result = "ok"
                       THEN [store.rows EXCEPT ![t] = others \cup {updated}]
                       ELSE store.rows,
            last |-> [op |-> "update", table |-> t, result |-> result] ]
  /\ UNCHANGED <<reqs, styleguides, onboarding, nwrites, ctx, out, userModels, inserts>>

InitStore ==
  /\ store = EmptyStore
  /\ userModels = {}
  /\ inserts = <<>>
  /\ reqs = <<>>
  /\ styleguides = NoStyleguides
  /\ onboarding = NoOnboarding
  /\ nwrites = 0
  /\ ctx = NoContext
  /\ out = NotCalled

NextStore ==
  \/ \E t \in TableNames : \E values \in InsertValues(t) : InsertRow(t, values)
  \/ \E t \in TableNames : \E row \in store.rows[t] :
       \E c \in Columns(t) : \E v \in ColumnValues(c) : UpdateRow(t, row, c, v)

SpecStore == InitStore /\ [][NextStore]_vars

-----------------------------------------------------------------------------
(* Properties *)

ReqIds == 1..Len(reqs)
IsDone(i) == reqs[i].pc = "done"
Unauthenticated(i) ==
  reqs[i].route \in {POST_STYLEGUIDE, POST_CHAT} /\ reqs[i].sub = Undefined

\* C1: on the two authenticated routes a request with no caller identity gets
\* exactly the 401 {message} response and no storage call is made for it; while
\* only such requests have been received the stored styleguides are untouched.
C1_Unauthenticated401 ==
  /\ \A i \in ReqIds : Unauthenticated(i) =>
        /\ reqs[i].responses = <<Resp(401, Message("User not authenticated"))>>
        /\ reqs[i].calls = 0
        /\ reqs[i].call = NoCall
        /\ reqs[i].wseq = 0
  /\ (\A i \in ReqIds : Unauthenticated(i)) =>
        styleguides = NoStyleguides /\ nwrites = 0

C1_Witness ==
  \E i, j \in ReqIds :
    /\ Unauthenticated(i) /\ reqs[i].route = POST_STYLEGUIDE /\ IsDone(i)
    /\ Unauthenticated(j) /\ reqs[j].route = POST_CHAT /\ IsDone(j)

\* C2: GET /api/styleguide/{userId} answers with the demo document (userId
\* "demo123", isActive true) exactly when userId is the demo identifier and
\* with 404 not-found for every other identifier, whatever has been stored.
C2_DemoOrNotFound ==
  \A i \in ReqIds : reqs[i].route = GET_STYLEGUIDE =>
    /\ Len(reqs[i].responses) = 1
    /\ LET resp == reqs[i].responses[1] IN
       IF reqs[i].param = demo123
         THEN /\ resp.status = 200
              /\ resp.body.userId = demo123
              /\ resp.body.isActive = TRUE
              /\ \E now \in Times : resp.body = demoStyleguide(now)
         ELSE resp = Resp(404, Message("Styleguide not found"))

\* a GET for u1 handled after u1's styleguide was stored
C2_Witness ==
  \E i, j \in ReqIds :
    /\ reqs[i].route = POST_STYLEGUIDE /\ reqs[i].sub = Str(u1) /\ reqs[i].wseq > 0
    /\ reqs[j].route = GET_STYLEGUIDE /\ reqs[j].param = u1
    /\ reqs[j].at >= reqs[i].wseq
    /\ styleguides[u1] # NoRecord

\* the character c is the letter k in either case
SameLetter(c, k) ==
  \E n \in 1..26 : LowerChars[n] = k /\ (c = k \/ c = UpperChars[n])

\* the keyword kw occurs in s at some position, letter case ignored
OccursIgnoringCase(s, kw) ==
  \E p \in 1..Len(s) :
    /\ p + Len(kw) - 1 <= Len(s)
    /\ \A q \in 1..Len(kw) : SameLetter(s[p + q - 1], kw[q])

\* C3: for a string message the response has type "styleguide_created" exactly
\* when "create", "new" or "generate" occurs in it as a substring, letter case
\* ignored; otherwise it has type "conversation" and exactly 3 suggestions.
C3_KeywordClassifier ==
  (out.called /\ ctx.message.t = "string") =>
    LET m == ctx.message.v
        kw == \/ OccursIgnoringCase(m, kwCreate)
              \/ OccursIgnoringCase(m, kwNew)
              \/ OccursIgnoringCase(m, kwGenerate)
    IN IF kw
         THEN out.result.type = "styleguide_created"
         ELSE /\ out.result.type = "conversation"
              /\ Len(out.result.suggestions) = 3

\* "CREATEd": upper case, and part of a longer word
C3_Witness ==
  /\ out.called
  /\ ctx.message = Str(wCREATE \o wD)
  /\ out.result.type = "styleguide_created"

IsCreated(i) ==
  /\ reqs[i].route = POST_CHAT
  /\ IsDone(i)
  /\ Len(reqs[i].responses) = 1
  /\ reqs[i].responses[1].status = 200
  /\ reqs[i].responses[1].body.type = "styleguide_created"

\* C4: a chat response of the creation branch carries, as templateId and as
\* templateApplied, the id of the first available template, which is the one
\* GET /api/styleguide-templates lists first.
C4_FirstTemplate ==
  \A i \in ReqIds : IsCreated(i) =>
    LET body == reqs[i].responses[1].body IN
    /\ body.styleguideData.templateId = ChatContext(reqs[i]).availableTemplates[1].id
    /\ body.templateApplied = body.styleguideData.templateId
    /\ body.styleguideData.templateId = templates[1].id
    /\ \A j \in ReqIds : reqs[j].route = GET_TEMPLATES =>
          reqs[j].responses[1].body.array[1].id = body.styleguideData.templateId

C4_Witness ==
  \E i, j \in ReqIds : IsCreated(i) /\ reqs[j].route = GET_TEMPLATES /\ IsDone(j)

OnboardingFields == {"personalMission", "brandVoice", "targetAudience"}

Placeholder(f) ==
  IF f = "personalMission" THEN Str(PlaceholderMission)
  ELSE IF f = "brandVoice" THEN Str(PlaceholderVoice)
  ELSE Str(PlaceholderAudience)

\* the onboarding lookup gave a record and the record has a value for field f
FieldPresent(od, f) == od.t = "object" /\ od.v[f] \notin {Undefined, Null}

CreatedByCall == out.called /\ out.result # TypeError /\
                 out.result.type = "styleguide_created"

\* C5 as stated: each of the three fields is the onboarding value when the
\* field is present and its placeholder otherwise.
C5_PresentFieldKept ==
  CreatedByCall =>
    \A f \in OnboardingFields :
      out.result.styleguideData[f] =
        IF FieldPresent(ctx.onboardingData, f)
          THEN ctx.onboardingData.v[f]
          ELSE Placeholder(f)

\* C5 (amended): each of the three fields, independently of the other two, is
\* the onboarding value when the field is present and not the empty string,
\* and its placeholder when the lookup gave nothing or the field is absent or
\* empty.
C5_NonEmptyFieldKept ==
  CreatedByCall =>
    \A f \in OnboardingFields :
      out.result.styleguideData[f] =
        IF FieldPresent(ctx.onboardingData, f) /\ ctx.onboardingData.v[f] # Str(<<>>)
          THEN ctx.onboardingData.v[f]
          ELSE Placeholder(f)

\* one field kept, one absent and one empty in the same response
C5_Witness ==
  /\ CreatedByCall
  /\ ctx.onboardingData =
       Obj([personalMission |-> Str(<<"m","1">>), brandVoice |-> Undefined,
            targetAudience |-> Str(<<>>)])
  /\ out.result.styleguideData.personalMission = Str(<<"m","1">>)
  /\ out.result.styleguideData.brandVoice = Str(PlaceholderVoice)
  /\ out.result.styleguideData.targetAudience = Str(PlaceholderAudience)

\* request i's storage write is the step being taken
WriteStepOf(i) ==
  /\ reqs[i].route = POST_STYLEGUIDE
  /\ reqs[i].pc = "await"
  /\ reqs'[i].pc = "resume"
  /\ reqs'[i].wseq = nwrites'

\* C6: a step changes persisted state (stored styleguides, stored onboarding
\* data) only if it is the storage write of a POST /api/styleguide request;
\* the two GET routes and the chat route leave it as it was.
C6_OnlyPostStyleguideWrites ==
  [][ (styleguides' # styleguides \/ onboarding' # onboarding) =>
        \E i \in ReqIds : WriteStepOf(i) ]_vars

\* a styleguide has been stored and a chat and a GET were answered
C6_Witness ==
  /\ styleguides # NoStyleguides
  /\ \E i \in ReqIds : reqs[i].route = POST_CHAT /\ IsDone(i) /\
                         reqs[i].responses[1].status = 200

\* the POST /api/styleguide requests of user u whose write was committed
Writers(u) ==
  { i \in ReqIds : reqs[i].route = POST_STYLEGUIDE /\ reqs[i].sub = Str(u) /\
                   reqs[i].wseq > 0 }

LastWriter(u) == CHOOSE i \in Writers(u) : \A j \in Writers(u) : reqs[j].wseq <= reqs[i].wseq

\* C7: a committed POST /api/styleguide of user U with body B is answered with
\* the record stored for it, which holds exactly B under U; each user's stored
\* record is the body of the last committed write for that user, whatever the
\* interleaving, and is absent while there was none.
C7_UpsertLastWriterWins ==
  /\ \A i \in ReqIds : (reqs[i].route = POST_STYLEGUIDE /\ reqs[i].wseq > 0) =>
        /\ reqs[i].awaited = Ok([userId |-> reqs[i].sub, data |-> reqs[i].body])
        /\ IsDone(i) => reqs[i].responses = <<Resp(200, reqs[i].awaited.v)>>
  /\ \A u \in Users :
        IF Writers(u) = {}
          THEN styleguides[u] = NoRecord
          ELSE styleguides[u] = [userId |-> Str(u), data |-> reqs[LastWriter(u)].body]

\* two requests of u1 with different bodies, written in the reverse of their
\* arrival order, both answered
C7_Witness ==
  /\ Len(reqs) >= 2
  /\ reqs[1].route = POST_STYLEGUIDE /\ reqs[2].route = POST_STYLEGUIDE
  /\ reqs[1].sub = Str(u1) /\ reqs[2].sub = Str(u1)
  /\ reqs[1].body # reqs[2].body
  /\ reqs[2].wseq = 1 /\ reqs[1].wseq = 2
  /\ IsDone(1) /\ IsDone(2)
  /\ styleguides[u1].data = reqs[1].body

InsertIds == 1..Len(inserts)
Executed(i) == inserts[i].state # "issued"

\* C8: of two UserModel inserts for the same user that the database has run,
\* at most one committed and, when one did, the other failed with a
\* uniqueness violation; no user has more than one row in user_models.
C8_OneModelPerUser ==
  /\ \A i, j \in InsertIds :
        ( /\ i # j
          /\ inserts[i].values.userId = inserts[j].values.userId
          /\ inserts[i].state = "committed"
          /\ Executed(j)
          /\ inserts[j].values.triggerWord # Null ) =>
            inserts[j].state = "failed" /\ inserts[j].error = "unique_violation"
  /\ \A r1, r2 \in userModels : r1.userId = r2.userId => r1 = r2

\* two inserts for u1 with different trigger words, both run
C8_Witness ==
  \E i, j \in InsertIds :
    /\ i # j
    /\ inserts[i].values.userId = Str(u1) /\ inserts[j].values.userId = Str(u1)
    /\ inserts[i].values.triggerWord # inserts[j].values.triggerWord
    /\ inserts[i].state = "committed"
    /\ inserts[j].state = "failed" /\ inserts[j].error = "unique_violation"

\* some step of the handler or of the storage call it awaits can be taken
CanProceed(i) ==
  ENABLED ( \/ CreateOrUpdateStyleguide(i) \/ GetOnboardingData(i)
            \/ PostStyleguideResume(i) \/ PostChatResume(i) )

\* C9: a request is finished exactly when one response has been sent for it,
\* never more; the response is the success body or an error with a {message}
\* body; at most one storage call is made for it; a storage call that threw
\* ends in the 500 response; an unfinished request can always proceed.
C9_ExactlyOneResponse ==
  \A i \in ReqIds :
    /\ Len(reqs[i].responses) <= 1
    /\ IsDone(i) <=> Len(reqs[i].responses) = 1
    /\ reqs[i].calls <= 1
    /\ IsDone(i) =>
         LET resp == reqs[i].responses[1] IN
         /\ resp.status \in {200, 401, 404, 500}
         /\ resp.status # 200 => DOMAIN resp.body = {"message"}
         /\ reqs[i].awaited = Threw => resp.status = 500 /\ reqs[i].calls = 1
    /\ ~IsDone(i) => CanProceed(i)

\* both storage calls have thrown and both requests were answered with 500
C9_Witness ==
  \E i, j \in ReqIds :
    /\ reqs[i].route = POST_STYLEGUIDE /\ reqs[j].route = POST_CHAT
    /\ reqs[i].awaited = Threw /\ reqs[j].awaited = Threw
    /\ reqs[i].responses = <<Resp(500, Message("Failed to create styleguide"))>>
    /\ reqs[j].responses = <<Resp(500, Message("Failed to process styleguide request"))>>

\* request i is a chat request whose handler reached the responder
Responded(i) ==
  reqs[i].route = POST_CHAT /\ IsDone(i) /\ reqs[i].awaited.state = "ok"

\* C10: two chat requests whose message, onboarding data, current styleguide
\* and available templates are equal get equal responses, whoever the callers
\* are and whatever was handled before.
C10_ResponseDeterminedByInputs ==
  \A i, j \in ReqIds :
    ( /\ Responded(i) /\ Responded(j)
      /\ reqs[i].body.message = reqs[j].body.message
      /\ reqs[i].awaited.v = reqs[j].awaited.v
      /\ reqs[i].body.currentStyleguide = reqs[j].body.currentStyleguide
      /\ ChatContext(reqs[i]).availableTemplates =
           ChatContext(reqs[j]).availableTemplates ) =>
        reqs[i].responses = reqs[j].responses

\* two callers with equal inputs, both answered from the creation branch
C10_Witness ==
  \E i, j \in ReqIds :
    /\ IsCreated(i) /\ IsCreated(j)
    /\ reqs[i].sub # reqs[j].sub
    /\ reqs[i].body = reqs[j].body
    /\ reqs[i].awaited = reqs[j].awaited
    /\ reqs[i].awaited.v # Undefined
    /\ reqs[i].responses = reqs[j].responses

\* no two rows of table t have the same value in column c
NoTwoShare(t, c) ==
  \A r1, r2 \in store.rows[t] : r1[c] = r2[c] => r1 = r2

\* C11: after any inserts and updates the schema accepts, each user has at most
\* one UserModel, one Brandbook and one Dashboard, no two UserModels share a
\* trigger word, and no two Domain rows share a domain string or a non-null
\* subdomain string.
C11_StoreUniqueness ==
  /\ NoTwoShare("user_models", "userId")
  /\ NoTwoShare("brandbooks", "userId")
  /\ NoTwoShare("dashboards", "userId")
  /\ NoTwoShare("user_models", "triggerWord")
  /\ NoTwoShare("domains", "domain")
  /\ \A r1, r2 \in store.rows["domains"] :
        (r1.subdomain # Null /\ r1.subdomain = r2.subdomain) => r1 = r2

\* two Domain rows, both without a subdomain, after an update of one of them
\* was rejected for a uniqueness violation
C11_Witness ==
  /\ store.last = [op |-> "update", table |-> "domains", result |-> "unique_violation"]
  /\ \E r1, r2 \in store.rows["domains"] :
        r1 # r2 /\ r1.subdomain = Null /\ r2.subdomain = Null

\* C12: after any inserts the schema accepts, no user owns more than one
\* onboarding_data row.
C12_OneOnboardingPerUser == NoTwoShare("onboarding_data", "userId")

\* request i is an authenticated chat request whose message is not a string
NoStringMessage(i) ==
  /\ reqs[i].route = POST_CHAT
  /\ Truthy(reqs[i].sub)
  /\ reqs[i].body.message.t # "string"

\* C13: an authenticated chat request whose message is missing or not a string
\* is answered with 500 {message: "Failed to process styleguide request"}; by
\* then the onboarding lookup, its only storage call, has been made; it writes
\* nothing, and while only chat requests were received nothing is stored.
C13_NoMessageIs500 ==
  /\ \A i \in ReqIds : NoStringMessage(i) =>
        /\ reqs[i].wseq = 0
        /\ IsDone(i) =>
             /\ reqs[i].responses =
                  <<Resp(500, Message("Failed to process styleguide request"))>>
             /\ reqs[i].calls = 1
             /\ reqs[i].call.op = "getOnboardingData"
             /\ reqs[i].awaited # NotAwaited
  /\ (\A i \in ReqIds : reqs[i].route = POST_CHAT) =>
        styleguides = NoStyleguides /\ nwrites = 0
  /\ onboarding \in StoredOnboarding

\* u1 has a stored styleguide, the lookup for u1 succeeded, and the request
\* with a null message was still answered with 500
C13_Witness ==
  \E i \in ReqIds :
    /\ NoStringMessage(i) /\ IsDone(i)
    /\ reqs[i].sub = Str(u1)
    /\ reqs[i].body.message = Null
    /\ reqs[i].awaited = Ok(SomeOnboarding)
    /\ reqs[i].responses[1].status = 500
    /\ styleguides[u1] # NoRecord

=============================================================================
